---- MODULE Spec2Model ----
(***************************************************************************)
(* Role-based access check of slides/experiments/03-roleBasedAccess.ts:    *)
(* the permission table userAccessModel, the types Role and Action derived *)
(* from it, and canUserAccess(role, action).                               *)
(*                                                                         *)
(* The specifications share the table:                                     *)
(*   Spec          calls run one after the other and are recorded in       *)
(*                 `log`;                                                  *)
(*   SpecConc      several callers run the two statements of               *)
(*                 canUserAccess interleaved, each with its own local      *)
(*                 possibleActions;                                        *)
(*   FairSpecTyped the same callers, passing values of Role and Action     *)
(*                 only, with each statement weakly fair.                  *)
(* Types are erased at run time, so a caller can pass any value; the       *)
(* inputs therefore also range over values outside Role and Action.        *)
(***************************************************************************)
EXTENDS Naturals, Sequences, FiniteSets

VARIABLES userAccessModel, log, pc, role, action, possibleActions, result

vars == <<userAccessModel, log, pc, role, action, possibleActions, result>>
callerVars == <<pc, role, action, possibleActions, result>>

\* Number of calls recorded by the sequential specification.
MaxCalls == 3
\* Number of concurrent callers.
NumCallers == 2

Callers == 1..NumCallers

\* Values a caller can pass that are in no row and are no key of the table:
\* an unknown key, and a key the object inherits from Object.prototype.
UnknownRoles == {"guest"}
InheritedKeys == {"constructor"}
UnknownActions == {"publish"}

\* ---------------------------------------------------------------------
\* The table and the types derived from it
\* ---------------------------------------------------------------------

\* Faulty variant: "view" is listed twice for user.
userAccessModelDuplicate ==
  [ user      |-> <<"update-self", "view", "view">>,
    admin     |-> <<"create", "update-self", "update-any", "delete", "view">>,
    anonymous |-> <<"view">> ]

\* Faulty variant: user may delete, admin may not.
userAccessModelSwapped ==
  [ user      |-> <<"update-self", "view", "delete">>,
    admin     |-> <<"create", "update-self", "update-any", "view">>,
    anonymous |-> <<"view">> ]

userAccessModelLiteral ==
  [ user      |-> <<"update-self", "view">>,
    admin     |-> <<"create", "update-self", "update-any", "delete", "view">>,
    anonymous |-> <<"view">> ]

\* keyof typeof userAccessModel
Role == DOMAIN userAccessModel

\* typeof userAccessModel[Role]: the union of the rows
UserAccessModelValues == { userAccessModel[r] : r \in Role }

\* Faulty variant: UserAccessModelValues[0], the first member of each row.
ActionFirstMember == { v[1] : v \in UserAccessModelValues }

\* UserAccessModelValues[number]: all members of all rows
Action == UNION { { v[i] : i \in DOMAIN v } : v \in UserAccessModelValues }

\* ---------------------------------------------------------------------
\* Run-time semantics of the two statements of canUserAccess
\* ---------------------------------------------------------------------

Return(v) == [kind |-> "return", value |-> v]
Throw(e) == [kind |-> "throw", error |-> e]

Undefined == [kind |-> "undefined", elems |-> << >>]
Inherited == [kind |-> "function", elems |-> << >>]
Array(s) == [kind |-> "array", elems |-> s]

\* Faulty variant: a missing key defaults to an empty row.
GetOrEmpty(obj, key) ==
  IF key \in DOMAIN obj THEN Array(obj[key]) ELSE Array(<< >>)

\* obj[key]: an own key gives its array, a key inherited from
\* Object.prototype gives a function, any other key gives undefined.
Get(obj, key) ==
  IF key \in DOMAIN obj THEN Array(obj[key])
  ELSE IF key \in InheritedKeys THEN Inherited
  ELSE Undefined

RECURSIVE includesFrom(_, _, _)
\* Array.prototype.includes: scan from index k, comparing each element.
includesFrom(arr, searchElement, k) ==
  IF k > Len(arr) THEN FALSE
  ELSE IF arr[k] = searchElement THEN TRUE
  ELSE includesFrom(arr, searchElement, k + 1)

\* Faulty variant: the scan starts at a hidden cursor that advances with every call.
includesStateful(arr, searchElement) ==
  includesFrom(arr, searchElement, 1 + (Len(log) % 2))

\* Faulty variant: the scan stops before the last element.
includesOffByOne(arr, searchElement) ==
  includesFrom(SubSeq(arr, 1, Len(arr) - 1), searchElement, 1)

includes(arr, searchElement) == includesFrom(arr, searchElement, 1)

\* Faulty variant: a role with a single-member row is rejected.
callIncludesStrict(pa, act) ==
  IF pa.kind = "array" /\ Len(pa.elems) > 1
  THEN Return(includes(pa.elems, act))
  ELSE Throw("TypeError")

\* possibleActions.includes(action as any): calling includes on undefined,
\* or on a value that has no includes method, throws a TypeError.
callIncludes(pa, act) ==
  IF pa.kind = "array"
  THEN Return(includes(pa.elems, act))
  ELSE Throw("TypeError")

\* Faulty variant: only the first member of the row is compared.
canUserAccessFirstOnly(r, a) ==
  LET pa == Get(userAccessModel, r)
  IN  IF pa.kind = "array"
      THEN Return(Len(pa.elems) > 0 /\ pa.elems[1] = a)
      ELSE Throw("TypeError")

\* canUserAccess as implemented: the row is saved, then tested.
canUserAccess(r, a) ==
  LET possibleActionsLocal == Get(userAccessModel, r)
  IN  callIncludes(possibleActionsLocal, a)

\* The documented alternative:
\* (userAccessModel[role] as ReadonlyArray<Action>).includes(action)
canUserAccessReadonlyArray(r, a) ==
  callIncludes(Get(userAccessModel, r), a)

\* What a caller can pass: the values of the types and, the types being
\* erased at run time, values outside them.
RoleInputs == Role \cup UnknownRoles \cup InheritedKeys
ActionInputs == Action \cup UnknownActions
\* The concurrent callers pass one kind of invalid role: both kinds take
\* the same path through the two statements.
ConcRoleInputs == Role \cup UnknownRoles

\* ---------------------------------------------------------------------
\* Sequential specification
\* ---------------------------------------------------------------------

Init ==
  /\ userAccessModel = userAccessModelLiteral
  /\ log = << >>
  /\ pc = [c \in Callers |-> "idle"]
  /\ role = [c \in Callers |-> "user"]
  /\ action = [c \in Callers |-> "view"]
  /\ possibleActions = [c \in Callers |-> Undefined]
  /\ result = [c \in Callers |-> Throw("none")]

\* Faulty variant: the call appends the action to the row it looked up.
CallMutating(r, a) ==
  /\ Len(log) < MaxCalls
  /\ log' = Append(log, [role |-> r, action |-> a, outcome |-> canUserAccess(r, a)])
  /\ userAccessModel' =
       IF r \in DOMAIN userAccessModel
       THEN [userAccessModel EXCEPT ![r] = Append(@, a)]
       ELSE userAccessModel
  /\ UNCHANGED callerVars

\* One complete call canUserAccess(r, a); its outcome is recorded.
Call(r, a) ==
  /\ Len(log) < MaxCalls
  /\ log' = Append(log, [role |-> r, action |-> a, outcome |-> canUserAccess(r, a)])
  /\ UNCHANGED <<userAccessModel, callerVars>>

Next == \E r \in RoleInputs, a \in ActionInputs : Call(r, a)

Spec == Init /\ [][Next]_vars

\* ---------------------------------------------------------------------
\* Concurrent specification: each caller runs the two statements of
\* canUserAccess as separate steps
\* ---------------------------------------------------------------------

\* A caller enters canUserAccess(r, a).
Invoke(c, r, a) ==
  /\ pc[c] = "idle"
  /\ pc' = [pc EXCEPT ![c] = "called"]
  /\ role' = [role EXCEPT ![c] = r]
  /\ action' = [action EXCEPT ![c] = a]
  /\ UNCHANGED <<userAccessModel, log, possibleActions, result>>

\* Faulty variant: possibleActions is hoisted out of the function and shared.
LookupRowShared(c) ==
  /\ pc[c] = "called"
  /\ possibleActions' = [d \in Callers |-> Get(userAccessModel, role[c])]
  /\ pc' = [pc EXCEPT ![c] = "looked"]
  /\ UNCHANGED <<userAccessModel, log, role, action, result>>

\* const possibleActions = userAccessModel[role];
LookupRow(c) ==
  /\ pc[c] = "called"
  /\ possibleActions' = [possibleActions EXCEPT ![c] = Get(userAccessModel, role[c])]
  /\ pc' = [pc EXCEPT ![c] = "looked"]
  /\ UNCHANGED <<userAccessModel, log, role, action, result>>

\* return possibleActions.includes(action as any);
TestMembership(c) ==
  /\ pc[c] = "looked"
  /\ result' = [result EXCEPT ![c] = callIncludes(possibleActions[c], action[c])]
  /\ pc' = [pc EXCEPT ![c] = "returned"]
  /\ UNCHANGED <<userAccessModel, log, role, action, possibleActions>>

\* The caller takes the outcome; its frame is gone.
Finish(c) ==
  /\ pc[c] = "returned"
  /\ pc' = [pc EXCEPT ![c] = "idle"]
  /\ role' = [role EXCEPT ![c] = "user"]
  /\ action' = [action EXCEPT ![c] = "view"]
  /\ possibleActions' = [possibleActions EXCEPT ![c] = Undefined]
  /\ result' = [result EXCEPT ![c] = Throw("none")]
  /\ UNCHANGED <<userAccessModel, log>>

NextConc ==
  \/ \E c \in Callers, r \in ConcRoleInputs, a \in ActionInputs : Invoke(c, r, a)
  \/ \E c \in Callers : LookupRow(c)
  \/ \E c \in Callers : TestMembership(c)
  \/ \E c \in Callers : Finish(c)

SpecConc == Init /\ [][NextConc]_vars

\* Callers that passed the type checker: only values of Role and Action.
NextTyped ==
  \/ \E c \in Callers, r \in Role, a \in Action : Invoke(c, r, a)
  \/ \E c \in Callers : LookupRow(c)
  \/ \E c \in Callers : TestMembership(c)
  \/ \E c \in Callers : Finish(c)

\* A call that has started runs to completion: both statements are
\* synchronous, so each is weakly fair.
FairSpecTyped ==
  /\ Init /\ [][NextTyped]_vars
  /\ \A c \in Callers : WF_vars(LookupRow(c)) /\ WF_vars(TestMembership(c))

\* ---------------------------------------------------------------------
\* Properties
\* ---------------------------------------------------------------------

\* The closed sets and the permission table as the specification lists them.
ClosedRoleSet == {"user", "admin", "anonymous"}
ClosedActionSet == {"create", "update-self", "update-any", "delete", "view"}
PermittedActions ==
  [ user      |-> {"update-self", "view"},
    admin     |-> {"create", "update-self", "update-any", "delete", "view"},
    anonymous |-> {"view"} ]

ValidInput(r, a) == r \in ClosedRoleSet /\ a \in ClosedActionSet
Logged(r, a, o) ==
  \E i \in DOMAIN log :
    log[i].role = r /\ log[i].action = a /\ log[i].outcome = o

\* C1: for each of the 15 valid (role, action) pairs canUserAccess returns
\* true exactly when the action is listed in the role's row of the
\* permission table, and false otherwise.
C1_TableMembership ==
  \A i \in DOMAIN log :
    ValidInput(log[i].role, log[i].action) =>
      log[i].outcome = Return(log[i].action \in PermittedActions[log[i].role])

C1_Witness ==
  /\ Logged("admin", "delete", Return(TRUE))
  /\ Logged("user", "delete", Return(FALSE))

\* C2 as stated: every call with a role or an action outside the closed
\* sets ends in an InvalidArgument error.
C2_InvalidArgumentRaised ==
  \A i \in DOMAIN log :
    ~ValidInput(log[i].role, log[i].action) =>
      log[i].outcome = Throw("InvalidArgument")

\* C2 amended: a call with a role outside the closed set ends in a
\* TypeError whatever the action; a call with a valid role and an action
\* outside the closed set returns false; no call ends in InvalidArgument.
C2_InvalidInputOutcome ==
  \A i \in DOMAIN log :
    /\ log[i].role \notin ClosedRoleSet => log[i].outcome = Throw("TypeError")
    /\ (log[i].role \in ClosedRoleSet /\ log[i].action \notin ClosedActionSet)
         => log[i].outcome = Return(FALSE)
    /\ log[i].outcome # Throw("InvalidArgument")

C2_Witness ==
  /\ Logged("guest", "view", Throw("TypeError"))
  /\ Logged("admin", "publish", Return(FALSE))

\* C3: after any sequence of calls the permission table has exactly its
\* initial contents.
C3_TableNeverMutated == userAccessModel = userAccessModelLiteral

C3_Witness ==
  /\ Len(log) >= 2
  /\ \E i, j \in DOMAIN log : log[i].role = "admin" /\ log[j].role = "guest"

\* C4: two calls with the same valid inputs return the same result,
\* whatever calls were made before or between them.
C4_Deterministic ==
  \A i, j \in DOMAIN log :
    ( /\ ValidInput(log[i].role, log[i].action)
      /\ log[i].role = log[j].role
      /\ log[i].action = log[j].action )
    => log[i].outcome = log[j].outcome

C4_Witness ==
  \E i, k, j \in DOMAIN log :
    /\ i < k /\ k < j
    /\ ValidInput(log[i].role, log[i].action)
    /\ log[i].role = log[j].role /\ log[i].action = log[j].action
    /\ log[k].role # log[i].role /\ log[k].action # log[i].action
    /\ log[i].outcome = Return(TRUE)

\* C5: the keys of the table are exactly user, admin and anonymous, every
\* action of every row is in the closed action set, and no row lists an
\* action twice.
C5_TableWellFormed ==
  /\ DOMAIN userAccessModel = ClosedRoleSet
  /\ \A r \in DOMAIN userAccessModel :
       /\ \A i \in DOMAIN userAccessModel[r] :
            userAccessModel[r][i] \in ClosedActionSet
       /\ \A i, j \in DOMAIN userAccessModel[r] :
            i # j => userAccessModel[r][i] # userAccessModel[r][j]

C5_Witness ==
  /\ Len(log) >= 1
  /\ \E r \in DOMAIN userAccessModel : Len(userAccessModel[r]) = 5
  /\ \E r \in DOMAIN userAccessModel : Len(userAccessModel[r]) = 1

\* C6: with callers interleaving at the two statements of canUserAccess,
\* every call returns what it returns when run alone, and a caller that
\* is inside the function can always take its next step, whatever the
\* other callers are doing.
C6_ConcurrentSafe ==
  \A c \in Callers :
    /\ pc[c] = "returned" => result[c] = canUserAccess(role[c], action[c])
    /\ pc[c] = "called" => ENABLED LookupRow(c)
    /\ pc[c] = "looked" => ENABLED TestMembership(c)

C6_Witness ==
  \E c, d \in Callers :
    /\ c # d
    /\ pc[c] = "returned" /\ pc[d] = "looked"
    /\ role[c] = "admin" /\ role[d] = "anonymous"
    /\ action[c] = "delete" /\ action[d] = "delete"
    /\ result[c] = Return(TRUE)

IsBoolean(o) == o = Return(TRUE) \/ o = Return(FALSE)

\* C7: a call with a role and an action of the closed sets terminates and
\* returns a boolean; it never raises an error.
C7_TotalOnValidDomain ==
  /\ [](\A c \in Callers :
          (pc[c] = "returned" /\ ValidInput(role[c], action[c]))
            => IsBoolean(result[c]))
  /\ \A c \in Callers :
       (pc[c] = "called" /\ ValidInput(role[c], action[c]))
         ~> (pc[c] = "returned" /\ IsBoolean(result[c]))

C7_Witness ==
  \E c \in Callers :
    /\ pc[c] = "returned"
    /\ role[c] = "anonymous" /\ action[c] = "create"
    /\ result[c] = Return(FALSE)

\* C8: the Action set derived from the table is the union of all members
\* of all rows, exactly the five actions: every action of the set is
\* permitted for at least one role, and every action of the set is in a row.
C8_ActionIsUnionOfRows ==
  LET derived == Action
  IN  /\ derived = ClosedActionSet
      /\ \A a \in derived :
           /\ \E r \in Role : canUserAccess(r, a) = Return(TRUE)
           /\ \E r \in Role : \E i \in DOMAIN userAccessModel[r] :
                userAccessModel[r][i] = a

C8_Witness ==
  /\ Logged("admin", "update-any", Return(TRUE))
  /\ Logged("user", "update-any", Return(FALSE))

\* C9: the implemented variant (row saved, then includes(action as any))
\* and the documented alternative with the ReadonlyArray cast return the
\* same boolean for every valid (role, action), and true for every action
\* listed in the role's row.
C9_CastEquivalence ==
  \A i \in DOMAIN log :
    ValidInput(log[i].role, log[i].action) =>
      /\ log[i].outcome = canUserAccessReadonlyArray(log[i].role, log[i].action)
      /\ log[i].action \in PermittedActions[log[i].role] =>
           /\ log[i].outcome = Return(TRUE)
           /\ canUserAccessReadonlyArray(log[i].role, log[i].action) = Return(TRUE)

C9_Witness ==
  /\ Logged("user", "view", Return(TRUE))
  /\ Logged("user", "create", Return(FALSE))

\* C10: what anonymous may do, user may do; what user may do, admin may
\* do; admin may do every action of the Action set; every role may view.
C10_NestedByRole ==
  \A i \in DOMAIN log :
    LET e == log[i]
    IN  /\ (e.role = "anonymous" /\ e.outcome = Return(TRUE))
             => canUserAccess("user", e.action) = Return(TRUE)
        /\ (e.role = "user" /\ e.outcome = Return(TRUE))
             => canUserAccess("admin", e.action) = Return(TRUE)
        /\ (e.role = "admin" /\ e.action \in Action) => e.outcome = Return(TRUE)
        /\ (e.role \in Role /\ e.action = "view") => e.outcome = Return(TRUE)

C10_Witness ==
  /\ Logged("anonymous", "update-self", Return(FALSE))
  /\ Logged("user", "update-self", Return(TRUE))
  /\ Logged("admin", "update-self", Return(TRUE))

====
